---------------------------- MODULE Spec2Model ----------------------------
(***************************************************************************)
(* Noted: the note-taking widget of src/script.js and src/unnamed/part_000.*)
(*                                                                         *)
(* The sources hold three revisions of the App component:                  *)
(*   rev 1  src/script.js lines 25-189   (3 colours, rotating)             *)
(*   rev 2  src/unnamed/part_000         (42 colours, rotating)            *)
(*   rev 3  src/script.js lines 229-404  (12 colours, neutral default,     *)
(*                                        changeNoteColor)                 *)
(* A behaviour runs one revision: rev is chosen by Init and never changes. *)
(*                                                                         *)
(* JavaScript values are tagged records; JSON text is a sequence of        *)
(* tokens, written by JSONstringify and read back by JSONparse.            *)
(***************************************************************************)
EXTENDS Integers, Sequences, FiniteSets, TLC

VARIABLES
    rev,            \* which revision of App runs
    phase,          \* "boot" before root.render, "mounted" after
    localStorage,   \* the 'notes' entry of window.localStorage
    notes,          \* React state: notes
    editingNoteId,  \* React state: editingNoteId
    hasError,       \* ErrorBoundary's state.hasError
    now,            \* the clock when Date.now() was last read (at first, the page's load)
    ops,            \* number of events handled since mounting
    writeFailures,  \* number of writes localStorage has refused
    lastOp,         \* the last event handled, with the editingNoteId it started from,
                    \* the value the field it wrote had before and the caret its
                    \* gesture left, the last callback run since, and the event
                    \* dispatched before it in the same task, if any
    timers,         \* the callbacks setTimeout holds, in the order they will run
    innerHTML,      \* the markup in the content div of each card, as the page shows it
    activeElement,  \* document.activeElement when it is a field of a card, and the
                    \* caret of the selection inside it
    uncaught        \* whether an exception has left a setTimeout callback

vars == <<rev, phase, localStorage, notes, editingNoteId, hasError, now, ops,
          writeFailures, lastOp, timers, innerHTML, activeElement, uncaught>>

-----------------------------------------------------------------------------
(* Bounds of the model *)

MaxNotes == 3       \* cards in the grid
MaxClock == 2       \* values Date.now() takes
MaxOps == 3         \* events handled after mounting
MaxWriteFailures == 1   \* writes localStorage refuses

-----------------------------------------------------------------------------
(* JavaScript values *)

JNull == [k |-> "null"]
JNum(n) == [k |-> "num", v |-> n]
JStr(s) == [k |-> "str", v |-> s]
JBool(b) == [k |-> "bool", v |-> b]
JArr(items) == [k |-> "arr", v |-> items]
\* An object: its own keys in insertion order, and the value of each key.
JObj(keys, get) == [k |-> "obj", keys |-> keys, v |-> get]

NoKeys == [x \in {} |-> JNull]

HasKey(o, key) == o.k = "obj" /\ key \in DOMAIN o.v

\* o[key] of an object that has the key.
Get(o, key) == o.v[key]

\* { ...o, [key]: val }: an own key keeps its place, a new key goes last.
SetKey(o, key, val) ==
    JObj(IF key \in DOMAIN o.v THEN o.keys ELSE Append(o.keys, key),
         [x \in (DOMAIN o.v) \cup {key} |-> IF x = key THEN val ELSE o.v[x]])

-----------------------------------------------------------------------------
(* JSON text: a sequence of tokens *)

Tok(t) == [t |-> t]
TokV(t, v) == [t |-> t, v |-> v]

RECURSIVE JSONstringify(_)
RECURSIVE StringifyElems(_, _)
RECURSIVE StringifyMembers(_, _)

StringifyElems(items, i) ==
    IF i > Len(items) THEN <<>>
    ELSE (IF i > 1 THEN <<Tok(",")>> ELSE <<>>)
         \o JSONstringify(items[i]) \o StringifyElems(items, i + 1)

StringifyMembers(o, i) ==
    IF i > Len(o.keys) THEN <<>>
    ELSE (IF i > 1 THEN <<Tok(",")>> ELSE <<>>)
         \o <<TokV("str", o.keys[i]), Tok(":")>>
         \o JSONstringify(o.v[o.keys[i]]) \o StringifyMembers(o, i + 1)

JSONstringify(x) ==
    CASE x.k = "null" -> <<Tok("null")>>
      [] x.k = "bool" -> <<Tok(IF x.v THEN "true" ELSE "false")>>
      [] x.k = "num" -> <<TokV("num", x.v)>>
      [] x.k = "str" -> <<TokV("str", x.v)>>
      [] x.k = "arr" -> <<Tok("[")>> \o StringifyElems(x.v, 1) \o <<Tok("]")>>
      [] x.k = "obj" -> <<Tok("{")>> \o StringifyMembers(x, 1) \o <<Tok("}")>>

\* A parse result: ok = FALSE is a SyntaxError.
ParseFail == [ok |-> FALSE, val |-> JNull, next |-> 0]
ParseOk(val, next) == [ok |-> TRUE, val |-> val, next |-> next]

TokAt(toks, i) == IF i \in 1..Len(toks) THEN toks[i].t ELSE "eof"

RECURSIVE ParseValue(_, _)
RECURSIVE ParseElems(_, _, _)
RECURSIVE ParseMembers(_, _, _)

\* The elements of an array after "[" or ",", up to and including "]".
ParseElems(toks, i, acc) ==
    LET r == ParseValue(toks, i) IN
    IF ~r.ok THEN ParseFail
    ELSE IF TokAt(toks, r.next) = "," THEN ParseElems(toks, r.next + 1, Append(acc, r.val))
    ELSE IF TokAt(toks, r.next) = "]" THEN ParseOk(JArr(Append(acc, r.val)), r.next + 1)
    ELSE ParseFail

\* The members of an object after "{" or ",", up to and including "}".
ParseMembers(toks, i, acc) ==
    IF TokAt(toks, i) # "str" \/ TokAt(toks, i + 1) # ":" THEN ParseFail
    ELSE LET r == ParseValue(toks, i + 2) IN
         IF ~r.ok THEN ParseFail
         ELSE LET o == SetKey(acc, toks[i].v, r.val) IN
              IF TokAt(toks, r.next) = "," THEN ParseMembers(toks, r.next + 1, o)
              ELSE IF TokAt(toks, r.next) = "}" THEN ParseOk(o, r.next + 1)
              ELSE ParseFail

ParseValue(toks, i) ==
    LET t == TokAt(toks, i) IN
    CASE t = "null" -> ParseOk(JNull, i + 1)
      [] t = "true" -> ParseOk(JBool(TRUE), i + 1)
      [] t = "false" -> ParseOk(JBool(FALSE), i + 1)
      [] t = "num" -> ParseOk(JNum(toks[i].v), i + 1)
      [] t = "str" -> ParseOk(JStr(toks[i].v), i + 1)
      [] t = "[" -> IF TokAt(toks, i + 1) = "]" THEN ParseOk(JArr(<<>>), i + 2)
                    ELSE ParseElems(toks, i + 1, <<>>)
      [] t = "{" -> IF TokAt(toks, i + 1) = "}" THEN ParseOk(JObj(<<>>, NoKeys), i + 2)
                    ELSE ParseMembers(toks, i + 1, JObj(<<>>, NoKeys))
      [] OTHER -> ParseFail

\* JSON.parse: the whole text must be one value.
JSONparse(toks) ==
    LET r == ParseValue(toks, 1) IN
    IF r.ok /\ r.next = Len(toks) + 1 THEN r ELSE ParseFail

-----------------------------------------------------------------------------
(* localStorage: one entry, absent or a text *)

Absent == [present |-> FALSE, toks |-> <<>>]
Stored(toks) == [present |-> TRUE, toks |-> toks]

\* localStorage.setItem('notes', text): ok = FALSE is a write the store refuses
\* (QuotaExceededError), which leaves the entry as it was.
setItem(ls, toks, ok) == IF ok THEN Stored(toks) ELSE ls


getItem(ls) == ls

\* `saved ? ... : ...`: null and the empty text are falsy.
Truthy(saved) == saved.present /\ saved.toks # <<>>

-----------------------------------------------------------------------------
(* The palette of each revision *)

colors1 == <<"bg-red-500", "bg-yellow-500", "bg-orange-500">>

colors2 ==
    <<"bg-red-500", "bg-yellow-500", "bg-orange-500", "bg-green-500", "bg-blue-500", "bg-purple-500",
      "bg-pink-500", "bg-indigo-500", "bg-teal-500", "bg-lime-500", "bg-amber-500", "bg-cyan-500",
      "bg-rose-500", "bg-fuchsia-500", "bg-emerald-500", "bg-violet-500", "bg-sky-500", "bg-zinc-500",
      "bg-stone-500", "bg-neutral-500", "bg-gray-500", "bg-red-400", "bg-orange-400", "bg-yellow-400",
      "bg-green-400", "bg-blue-400", "bg-purple-400", "bg-pink-400", "bg-indigo-400", "bg-teal-400",
      "bg-lime-400", "bg-amber-400", "bg-cyan-400", "bg-rose-400", "bg-fuchsia-400", "bg-emerald-400",
      "bg-violet-400", "bg-sky-400", "bg-zinc-400", "bg-stone-400", "bg-neutral-400", "bg-gray-400">>

colors3 ==
    <<"bg-red-500", "bg-yellow-500", "bg-orange-500", "bg-green-500", "bg-blue-500", "bg-purple-500",
      "bg-pink-500", "bg-indigo-500", "bg-teal-500", "bg-lime-500", "bg-amber-500", "bg-cyan-500">>

colors(r) == CASE r = 1 -> colors1 [] r = 2 -> colors2 [] r = 3 -> colors3

\* A default colour that every revision would give, misspelt.
NewNoteColorTypo(r, n) == "bg-grey-700"

\* The colour handleNewNoteClick gives a note made when the collection holds n
\* notes: colors[n % colors.length] in revisions 1 and 2, a fixed one in 3.
NewNoteColor(r, n) ==
    IF r = 3 THEN "bg-gray-700"
    ELSE colors(r)[(n % Len(colors(r))) + 1]

\* `note-${n + 1}`
NewNoteTitle(n) == "note-" \o ToString(n + 1)

\* The object literal of handleNewNoteClick.
NewNote(r, t, n) ==
    JObj(<<"id", "title", "content", "color">>,
         [x \in {"id", "title", "content", "color"} |->
            CASE x = "id" -> JNum(t)
              [] x = "title" -> JStr(NewNoteTitle(n))
              [] x = "content" -> JStr("")
              [] x = "color" -> JStr(NewNoteColor(r, n))])

-----------------------------------------------------------------------------
(* The pure part of each handler: the value it hands to setNotes *)

\* note.id === id (an element without an id has note.id undefined)
IdIs(note, id) == HasKey(note, "id") /\ Get(note, "id") = id

\* The map without its test of note.id: every note is rewritten.
UpdatedNotesAll(ns, id, field, value) ==
    [i \in 1..Len(ns) |->
        SetKey(SetKey(ns[i], field, JStr(value)), "isNew", JBool(FALSE))]

\* The map without its spread: the note is replaced by { [field]: value, isNew: false }.
UpdatedNotesNoSpread(ns, id, field, value) ==
    [i \in 1..Len(ns) |->
        IF IdIs(ns[i], id)
        THEN SetKey(SetKey(JObj(<<>>, NoKeys), field, JStr(value)), "isNew", JBool(FALSE))
        ELSE ns[i]]

\* notes.map(note => note.id === id ? { ...note, [field]: value, isNew: false } : note)
UpdatedNotes(ns, id, field, value) ==
    [i \in 1..Len(ns) |->
        IF IdIs(ns[i], id)
        THEN SetKey(SetKey(ns[i], field, JStr(value)), "isNew", JBool(FALSE))
        ELSE ns[i]]

\* notes.filter(note => note.id !== id)
RECURSIVE FilteredNotes(_, _)
FilteredNotes(ns, id) ==
    IF ns = <<>> THEN <<>>
    ELSE (IF IdIs(Head(ns), id) THEN <<>> ELSE <<Head(ns)>>) \o FilteredNotes(Tail(ns), id)

\* The map of changeNoteColor written as updateNoteContent's: isNew is cleared.
RecoloredNotesAsUpdate(ns, id, randomColor) ==
    [i \in 1..Len(ns) |->
        IF IdIs(ns[i], id)
        THEN SetKey(SetKey(ns[i], "color", JStr(randomColor)), "isNew", JBool(FALSE))
        ELSE ns[i]]

\* notes.map(note => note.id === id ? { ...note, color: randomColor } : note)
RecoloredNotes(ns, id, randomColor) ==
    [i \in 1..Len(ns) |->
        IF IdIs(ns[i], id) THEN SetKey(ns[i], "color", JStr(randomColor)) ELSE ns[i]]

\* [newNote, ...notes]
PrependedNotes(ns, newNote) == <<newNote>> \o ns

\* [...notes, newNote]
AppendedNotes(ns, newNote) == Append(ns, newNote)

\* The values Math.floor(Math.random() * colors.length) can take.
RandomIndexes(r) == 0..(Len(colors(r)) - 1)

-----------------------------------------------------------------------------
(* Rendering and persistence *)

JUndefined == [k |-> "undefined"]

\* note.id
NoteId(note) == IF HasKey(note, "id") THEN Get(note, "id") ELSE JUndefined

\* useState initializer of notes: the try block, and [] from the catch block.
\* The initializer with the branches of its conditional exchanged.
InitNotesExchanged(ls) ==
    LET saved == getItem(ls) IN
    IF Truthy(saved) THEN JArr(<<>>)
    ELSE LET r == JSONparse(saved.toks) IN
         IF r.ok THEN r.val ELSE JArr(<<>>)

InitNotes(ls) ==
    LET saved == getItem(ls) IN
    IF ~Truthy(saved) THEN JArr(<<>>)
    ELSE LET r == JSONparse(saved.toks) IN
         IF r.ok THEN r.val ELSE JArr(<<>>)

\* Whether App's render throws a TypeError: notes.map of a value that is no
\* array, or note.id of a null element.
AppRenderThrows(n) ==
    \/ n.k # "arr"
    \/ \E i \in 1..Len(n.v) : n.v[i].k \in {"null", "undefined"}

\* The effect without its try/catch: a refused write leaves the effect as an
\* exception.
PersistEffectNoCatch(ls, n, ok) ==
    [ls |-> setItem(ls, JSONstringify(n), ok), threw |-> ~ok]

\* The effect writing only a collection that holds notes.
PersistEffectNonEmpty(ls, n, ok) ==
    [ls |-> IF n.v = <<>> THEN ls ELSE setItem(ls, JSONstringify(n), ok), threw |-> FALSE]

\* The effect on [notes]: the write, and whether an exception leaves the effect.
PersistEffect(ls, n, ok) ==
    [ls |-> setItem(ls, JSONstringify(n), ok), threw |-> FALSE]

-----------------------------------------------------------------------------
(* Handlers: what one call asks React to do. Each reads the state of the     *)
(* render that created it.                                                    *)

\* The state updates one event queues: setNotes (set), the new notes, the new
\* editingNoteId, whether the event stops bubbling, the exception it raises.
Batch(set, n, e, stop, err) ==
    [setNotes |-> set, notes |-> n, editing |-> e, stopped |-> stop, err |-> err,
     timeouts |-> <<>>]

\* A callback given to setTimeout: the function it calls and the argument.
Timer(fn, arg) == [fn |-> fn, arg |-> arg]
NoTimer == Timer("none", JNull)

\* t is what Date.now() returns.
handleNewNoteClick(t) ==
    LET newNote == NewNote(rev, t, Len(notes.v)) IN
    Batch(TRUE, JArr(AppendedNotes(notes.v, newNote)), NoteId(newNote), FALSE, "none")

\* setEditingNoteId(note.id); setTimeout(() => focusEditor(note.id), 10)
handleNoteClick(note) ==
    [Batch(FALSE, notes, NoteId(note), FALSE, "none")
        EXCEPT !.timeouts = <<Timer("focusEditor", NoteId(note))>>]

updateNoteContent(id, field, value) ==
    Batch(TRUE, JArr(UpdatedNotes(notes.v, id, field, value)), editingNoteId, FALSE, "none")

\* handleEditorClick without e.stopPropagation()
handleEditorClickBubbling ==
    Batch(FALSE, notes, editingNoteId, FALSE, "none")

\* e.stopPropagation()
handleEditorClick ==
    Batch(FALSE, notes, editingNoteId, TRUE, "none")

\* deleteNote without e.stopPropagation(): the click goes on to the card.
deleteNoteBubbling(id) ==
    Batch(TRUE, JArr(FilteredNotes(notes.v, id)),
          IF editingNoteId = id THEN JNull ELSE editingNoteId, FALSE, "none")

deleteNote(id) ==
    Batch(TRUE, JArr(FilteredNotes(notes.v, id)),
          IF editingNoteId = id THEN JNull ELSE editingNoteId, TRUE, "none")

changeNoteColor(id, r) ==
    Batch(TRUE, JArr(RecoloredNotes(notes.v, id, colors(rev)[r + 1])),
          editingNoteId, TRUE, "none")

\* Revision 2 wires onInput to handleContentChange and does not define it.
\* Revision 1 also asks for placeCursorAtEnd(event.currentTarget) in a timeout:
\* React has set event.currentTarget back to null when the callback reads it.
handleContentChange(id, markup) ==
    IF rev = 2 THEN Batch(FALSE, notes, editingNoteId, FALSE, "ReferenceError")
    ELSE IF rev = 1
         THEN [updateNoteContent(id, "content", markup)
                  EXCEPT !.timeouts = <<Timer("placeCursorAtEnd", JNull)>>]
         ELSE updateNoteContent(id, "content", markup)

\* A click that is not stopped bubbles to the card's onClick, handleNoteClick.
Bubble(b, note) ==
    IF b.stopped THEN b
    ELSE [b EXCEPT !.editing = handleNoteClick(note).editing,
                   !.timeouts = b.timeouts \o handleNoteClick(note).timeouts]

-----------------------------------------------------------------------------
(* Inputs *)

\* What the user types into the title input and the editable field.
\* The draws of Math.floor(Math.random() * colors.length) the colour button is
\* tried with: the least and the greatest.
RandomDraws(r) == {0, Len(colors(r)) - 1}

TitleInputs == {"todo"}
MarkupInputs == {"", "<b>a</b>"}

\* A note an earlier session of revision r saved: made at time 0 (and, in
\* revision 3, recolored to the first colour), and the same note after its title
\* and, where the revision commits content, its content were edited.
SavedNote(r) ==
    IF r = 3 THEN RecoloredNotes(<<NewNote(r, 0, 0)>>, JNum(0), colors(r)[1])[1]
    ELSE NewNote(r, 0, 0)
EditedNote(r) ==
    LET titled == SetKey(SetKey(SavedNote(r), "title", JStr("todo")), "isNew", JBool(FALSE))
    IN IF r = 2 THEN titled ELSE SetKey(titled, "content", JStr("<b>a</b>"))

\* The 'notes' entry the page can find when it loads: none, the empty text,
\* text that is not JSON, JSON that is no array, and arrays an earlier session
\* of the same revision wrote.
InitialStorage(r) ==
    { Absent,
      Stored(<<>>),
      Stored(<<Tok("[")>>),
      Stored(<<Tok("null")>>),
      Stored(<<TokV("num", 0)>>),
      Stored(<<Tok("{"), Tok("}")>>),
      Stored(JSONstringify(JArr(<<>>))),
      Stored(JSONstringify(JArr(<<SavedNote(r)>>))),
      Stored(JSONstringify(JArr(<<EditedNote(r)>>))) }

-----------------------------------------------------------------------------
(* The page: the content divs React keeps, the focus and the caret *)

\* The text of the markup the fields hold: tags contribute none.
textContent(markup) == IF markup = "<b>a</b>" THEN "a" ELSE markup
TextLength(markup) == Len(textContent(markup))

\* note.content || ''
ContentOf(note) ==
    IF HasKey(note, "content") /\ Get(note, "content").k = "str"
    THEN Get(note, "content").v ELSE ""

\* No field of a card has the focus.
Body == [el |-> "body", card |-> 0, caret |-> 0]
\* The title input ("title") or the editable div ("editor") of card i has it,
\* the caret after k characters of its text.
Field(el, i, k) == [el |-> el, card |-> i, caret |-> k]

\* The notes on screen
Shown == IF notes.k = "arr" THEN notes.v ELSE <<>>

\* key={note.id}: the card of the last render that card j of the render of n
\* continues, 0 when it is new.
KeptCard(n, j) ==
    IF j <= Len(Shown) /\ NoteId(Shown[j]) = NoteId(n[j]) THEN j
    ELSE IF \E i \in 1..Len(Shown) : NoteId(Shown[i]) = NoteId(n[j])
         THEN CHOOSE i \in 1..Len(Shown) :
                 /\ NoteId(Shown[i]) = NoteId(n[j])
                 /\ \A h \in 1..(i - 1) : NoteId(Shown[h]) # NoteId(n[j])
         ELSE 0

\* dangerouslySetInnerHTML={{ __html: note.content || '' }}: React assigns
\* innerHTML when it creates the div and when the prop differs from the prop of
\* the last render; otherwise the div keeps what it holds (html).
SetsInnerHTML(n, j) ==
    KeptCard(n, j) = 0 \/ ContentOf(Shown[KeptCard(n, j)]) # ContentOf(n[j])

RenderedHTML(html, n) ==
    [j \in 1..Len(n) |->
        IF SetsInnerHTML(n, j) THEN ContentOf(n[j]) ELSE html[KeptCard(n, j)]]

\* The page after React commits n, from the page the gesture left (html, ae):
\* assigning innerHTML replaces the text the caret was in, and the selection
\* collapses to the start of the div.
Paint(html, ae, n) ==
    IF AppRenderThrows(n)
    THEN innerHTML' = <<>> /\ activeElement' = Body
    ELSE /\ innerHTML' = RenderedHTML(html, n.v)
         /\ activeElement' =
                IF ae.el = "editor" /\ ae.card \in 1..Len(n.v) /\ SetsInnerHTML(n.v, ae.card)
                THEN [ae EXCEPT !.caret = 0]
                ELSE ae

\* The offsets a caret can have in the markup
Offsets(markup) == 0..TextLength(markup)

-----------------------------------------------------------------------------
(* The state machine *)

\* The value of field in the first note with the id, "" when there is none.
\* No event
NoOp == [op |-> "none", id |-> JNull, field |-> "", value |-> "", err |-> "none"]

FieldBefore(id, field) ==
    IF notes.k = "arr" /\ \E i \in 1..Len(notes.v) : IdIs(notes.v[i], id) /\ HasKey(notes.v[i], field)
    THEN LET i == CHOOSE i \in 1..Len(notes.v) :
                    /\ IdIs(notes.v[i], id) /\ HasKey(notes.v[i], field)
                    /\ \A j \in 1..(i - 1) : ~(IdIs(notes.v[j], id) /\ HasKey(notes.v[j], field))
         IN Get(notes.v[i], field).v
    ELSE ""

Op(name, id, field, value, ok, err) ==
    [op |-> name, id |-> id, field |-> field, value |-> value, ok |-> ok, err |-> err,
     prevEditing |-> editingNoteId, prevValue |-> FieldBefore(id, field), caret |-> 0,
     ran |-> NoTimer, before |-> NoOp]

\* The event op of a gesture that left the caret after k characters.
OpAt(op, k) == [op EXCEPT !.caret = k]

Init ==
    /\ rev \in {1, 2, 3}
    /\ phase = "boot"
    /\ localStorage \in InitialStorage(rev)
    /\ notes = JUndefined
    /\ editingNoteId = JUndefined
    /\ hasError = FALSE
    /\ now = 1
    /\ ops = 0
    /\ writeFailures = 0
    /\ lastOp = [op |-> "none", id |-> JNull, field |-> "", value |-> "", ok |-> TRUE,
                 err |-> "none", prevEditing |-> JUndefined, prevValue |-> "", caret |-> 0,
                 ran |-> NoTimer, before |-> NoOp]
    /\ timers = <<>>
    /\ innerHTML = <<>>
    /\ activeElement = Body
    /\ uncaught = FALSE

\* Whether the next write may be refused.
WriteOutcomes == IF writeFailures < MaxWriteFailures THEN BOOLEAN ELSE {TRUE}

\* React commits the state n, e: App renders; an exception of the render or of
\* the effect goes to ErrorBoundary.getDerivedStateFromError; the effect runs
\* when notes was set (set).
Commit(n, e, set, ok) ==
    /\ notes' = n
    /\ editingNoteId' = e
    /\ IF AppRenderThrows(n)
       THEN hasError' = TRUE /\ UNCHANGED <<localStorage, writeFailures>>
       ELSE IF set
            THEN LET w == PersistEffect(localStorage, n, ok) IN
                 /\ localStorage' = w.ls
                 /\ hasError' = w.threw
                 /\ writeFailures' = IF ok THEN writeFailures ELSE writeFailures + 1
            ELSE hasError' = FALSE /\ UNCHANGED <<localStorage, writeFailures>>

\* root.render(<ErrorBoundary><App /></ErrorBoundary>): the first render of App
\* and its effect.
Mount ==
    /\ phase = "boot"
    /\ phase' = "mounted"
    /\ \E ok \in WriteOutcomes :
        /\ Commit(InitNotes(localStorage), JNull, TRUE, ok)
        /\ lastOp' = Op("mount", JNull, "", "", ok, "none")
    /\ Paint(<<>>, Body, InitNotes(localStorage))
    /\ UNCHANGED <<rev, now, ops, timers, uncaught>>

\* What Date.now() can return: the clock has not ticked since it was last
\* read, or it has.
DateNow == {t \in now..MaxClock : t <= now + 1}

\* The note view is on screen and takes events.
Live == phase = "mounted" /\ ~hasError /\ ops < MaxOps

\* One event: its handlers ran and queued b; React commits it, unless a handler
\* threw, which leaves the state as it was.
Handle(b, ok, op) ==
    /\ Live
    /\ IF b.err = "none"
       THEN Commit(b.notes, b.editing, b.setNotes, ok)
       ELSE UNCHANGED <<notes, editingNoteId, hasError, localStorage, writeFailures>>
    /\ lastOp' = op
    /\ ops' = ops + 1
    /\ UNCHANGED <<rev, phase>>

\* An event whose handlers do not read the clock.
Event(b, ok, op) == Handle(b, ok, op) /\ UNCHANGED now

\* What the event does to the page and the timers: the gesture left the page as
\* html, ae; the handlers queued b.
Gesture(html, ae, b) ==
    /\ Paint(html, ae, IF b.err = "none" THEN b.notes ELSE notes)
    /\ timers' = IF b.err = "none" THEN timers \o b.timeouts ELSE timers
    /\ UNCHANGED uncaught

Cards == IF notes.k = "arr" THEN 1..Len(notes.v) ELSE {}

\* editingNoteId === note.id: the card shows the title input and the editable field
InEdit(i) == editingNoteId = NoteId(notes.v[i])

\* The "new notebox" button
ClickNewNote ==
    /\ Live
    /\ Len(notes.v) < MaxNotes
    /\ \E ok \in WriteOutcomes, t \in DateNow :
        /\ Handle(handleNewNoteClick(t), ok, Op("create", JNum(t), "", "", ok, "none"))
        /\ Gesture(innerHTML, Body, handleNewNoteClick(t))
        /\ now' = t

\* A click on a card outside its inputs and buttons
ClickCard(i) ==
    /\ Live
    /\ i \in Cards
    /\ LET b == Bubble(Batch(FALSE, notes, editingNoteId, FALSE, "none"), notes.v[i]) IN
        /\ Event(b, TRUE, Op("activate", NoteId(notes.v[i]), "", "", TRUE, "none"))
        /\ Gesture(innerHTML, Body, b)

\* A click inside the editable field of the card in edit mode
ClickEditor(i) ==
    /\ Live
    /\ i \in Cards
    /\ InEdit(i)
    /\ \E k \in Offsets(innerHTML[i]) :
        LET b == Bubble(handleEditorClick, notes.v[i]) IN
        /\ Event(b, TRUE, OpAt(Op("clickEditor", NoteId(notes.v[i]), "", "", TRUE, "none"), k))
        /\ Gesture(innerHTML, Field("editor", i, k), b)

\* A click inside the title input: onClick={(e) => e.stopPropagation()}
ClickTitle(i) ==
    /\ Live
    /\ i \in Cards
    /\ InEdit(i)
    /\ LET b == Bubble(Batch(FALSE, notes, editingNoteId, TRUE, "none"), notes.v[i]) IN
        /\ Event(b, TRUE, Op("clickTitle", NoteId(notes.v[i]), "", "", TRUE, "none"))
        /\ Gesture(innerHTML, Field("title", i, 0), b)

\* The delete button of a card
ClickDelete(i) ==
    /\ Live
    /\ i \in Cards
    /\ \E ok \in WriteOutcomes :
        LET b == Bubble(deleteNote(NoteId(notes.v[i])), notes.v[i]) IN
        /\ Event(b, ok, Op("remove", NoteId(notes.v[i]), "", "", ok, "none"))
        /\ Gesture(innerHTML, Body, b)

\* The colour button, which revision 3 shows on the card in edit mode
ClickColor(i) ==
    /\ Live
    /\ rev = 3
    /\ i \in Cards
    /\ InEdit(i)
    /\ \E ok \in WriteOutcomes, r \in RandomDraws(rev) :
        LET b == Bubble(changeNoteColor(NoteId(notes.v[i]), r), notes.v[i]) IN
        /\ Event(b, ok, Op("recolor", NoteId(notes.v[i]), "color", colors(rev)[r + 1], ok, "none"))
        /\ Gesture(innerHTML, Body, b)

\* onChange of the title input: the user typed in it, so it has the focus
ChangeTitle(i) ==
    /\ Live
    /\ i \in Cards
    /\ InEdit(i)
    /\ activeElement = Field("title", i, 0)
    /\ \E ok \in WriteOutcomes, value \in TitleInputs :
        LET b == updateNoteContent(NoteId(notes.v[i]), "title", value) IN
        /\ Event(b, ok, Op("update", NoteId(notes.v[i]), "title", value, ok, "none"))
        /\ Gesture(innerHTML, activeElement, b)

\* onInput of the editable field, which has the focus: the user's edit left
\* markup in the field and the caret after k characters of its text
InputContent(i) ==
    /\ Live
    /\ i \in Cards
    /\ InEdit(i)
    /\ activeElement.el = "editor" /\ activeElement.card = i
    /\ \E ok \in WriteOutcomes, markup \in MarkupInputs :
        \E k \in Offsets(markup) :
        LET b == handleContentChange(NoteId(notes.v[i]), markup) IN
        /\ Event(b, ok, OpAt(Op("input", NoteId(notes.v[i]), "content", markup,
                                ok \/ b.err # "none", b.err), k))
        /\ Gesture([innerHTML EXCEPT ![i] = markup], Field("editor", i, k), b)

\* document.querySelector('div[data-note-id]'): the first editable div, whatever
\* its id.
querySelectorAny(noteId) ==
    IF \E i \in 1..Len(innerHTML) : InEdit(i)
    THEN CHOOSE i \in 1..Len(innerHTML) :
            InEdit(i) /\ \A h \in 1..(i - 1) : ~InEdit(h)
    ELSE 0

\* document.querySelector(`div[data-note-id="${noteId}"]`): the first editable
\* div with the id, which a card has while it is in edit mode; 0 for null.
querySelector(noteId) ==
    IF \E i \in 1..Len(innerHTML) : InEdit(i) /\ NoteId(notes.v[i]) = noteId
    THEN CHOOSE i \in 1..Len(innerHTML) :
            /\ InEdit(i) /\ NoteId(notes.v[i]) = noteId
            /\ \A h \in 1..(i - 1) : ~(InEdit(h) /\ NoteId(notes.v[h]) = noteId)
    ELSE 0

\* placeCursorAtEnd without its first line, if (!element) return.
placeCursorAtEndUnguarded(element) ==
    IF element = 0 THEN [active |-> activeElement, threw |-> TRUE]
    ELSE [active |-> Field("editor", element, TextLength(innerHTML[element])),
          threw |-> FALSE]

\* placeCursorAtEnd(element): nothing for null; else the element takes the
\* focus and the selection collapses to the end of its contents.
placeCursorAtEnd(element) ==
    IF element = 0 THEN [active |-> activeElement, threw |-> FALSE]
    ELSE [active |-> Field("editor", element, TextLength(innerHTML[element])),
          threw |-> FALSE]

\* The callback t runs: the focus and caret it leaves, the callbacks it asks
\* for, whether an exception leaves it.
\*   () => focusEditor(note.id)     asks for the callback of focusEditor
\*   the callback of focusEditor    if (editor) placeCursorAtEnd(editor)
\*   () => placeCursorAtEnd(event.currentTarget), which is null by then
Callback(t) ==
    CASE t.fn = "focusEditor" ->
            [active |-> activeElement, threw |-> FALSE,
             timeouts |-> <<Timer("querySelector", t.arg)>>]
      [] t.fn = "querySelector" ->
            LET editor == querySelector(t.arg) IN
            IF editor # 0
            THEN [active |-> placeCursorAtEnd(editor).active,
                  threw |-> placeCursorAtEnd(editor).threw, timeouts |-> <<>>]
            ELSE [active |-> activeElement, threw |-> FALSE, timeouts |-> <<>>]
      [] t.fn = "placeCursorAtEnd" ->
            [active |-> placeCursorAtEnd(0).active,
             threw |-> placeCursorAtEnd(0).threw, timeouts |-> <<>>]

\* The callback at the head of the timers runs.
RunTimer ==
    /\ phase = "mounted"
    /\ timers # <<>>
    /\ LET t == Head(timers) IN
        /\ timers' = Tail(timers) \o Callback(t).timeouts
        /\ activeElement' = Callback(t).active
        /\ uncaught' = (uncaught \/ Callback(t).threw)
        /\ lastOp' = [lastOp EXCEPT !.ran = t]
    /\ UNCHANGED <<rev, phase, localStorage, notes, editingNoteId, hasError, now, ops,
                   writeFailures, innerHTML>>

\* ErrorBoundary.render without its test of state.hasError.
ErrorBoundaryRenderChildren(state) == "children"

\* ErrorBoundary.render: the heading "Something went wrong: ..." when
\* state.hasError, else this.props.children, the note view.
ErrorBoundaryRender(state) == IF state THEN "fallback" ELSE "children"

\* A click on the fallback heading: the heading has no event props and App is
\* unmounted, so no handler runs and nothing is set; the focus goes to the body.
ClickFallback ==
    /\ phase = "mounted"
    /\ ErrorBoundaryRender(hasError) = "fallback"
    /\ ops < MaxOps
    /\ lastOp' = Op("clickFallback", JNull, "", "", TRUE, "none")
    /\ ops' = ops + 1
    /\ activeElement' = Body
    /\ UNCHANGED <<rev, phase, localStorage, notes, editingNoteId, hasError, now,
                   writeFailures, timers, innerHTML, uncaught>>

Next ==
    \/ Mount
    \/ ClickNewNote
    \/ \E i \in 1..MaxNotes : ClickCard(i)
    \/ \E i \in 1..MaxNotes : ClickEditor(i)
    \/ \E i \in 1..MaxNotes : ClickTitle(i)
    \/ \E i \in 1..MaxNotes : ClickDelete(i)
    \/ \E i \in 1..MaxNotes : ClickColor(i)
    \/ \E i \in 1..MaxNotes : ChangeTitle(i)
    \/ \E i \in 1..MaxNotes : InputContent(i)
    \/ RunTimer
    \/ ClickFallback

Spec == Init /\ [][Next]_vars

-----------------------------------------------------------------------------
(* Events a script dispatches in one task. React 18 renders in a microtask,    *)
(* which runs when the task's script has returned: the handlers of both events *)
(* are those of the last render and read its notes and editingNoteId.          *)

\* An event: the card it is dispatched on (0 for the new-note button), what its
\* handlers queue, and the record of it.
Dispatch(i, b, op) == [card |-> i, b |-> b, op |-> op]

\* The events that can be dispatched on card i: on its title input, its
\* editable field (after the script wrote markup into it) and its colour button.
CardDispatches(i, ok) ==
    LET id == NoteId(notes.v[i]) IN
    IF ~InEdit(i) THEN {}
    ELSE {Dispatch(i, updateNoteContent(id, "title", value),
                   Op("update", id, "title", value, ok, "none")) : value \in TitleInputs}
         \cup {Dispatch(i, handleContentChange(id, markup),
                        Op("input", id, "content", markup,
                           ok \/ handleContentChange(id, markup).err # "none",
                           handleContentChange(id, markup).err)) : markup \in MarkupInputs}
         \cup (IF rev = 3
               THEN {Dispatch(i, Bubble(changeNoteColor(id, r), notes.v[i]),
                              Op("recolor", id, "color", colors(rev)[r + 1], ok, "none")) :
                        r \in RandomDraws(rev)}
               ELSE {})

Dispatches(ok) ==
    (IF Len(notes.v) < MaxNotes
     THEN {Dispatch(0, handleNewNoteClick(t), Op("create", JNum(t), "", "", ok, "none")) :
              t \in DateNow}
     ELSE {})
    \cup UNION {CardDispatches(i, ok) : i \in Cards}

\* React applies the queued updates in order: the last setNotes and the last
\* setEditingNoteId (which of these events only handleNewNoteClick calls) stand.
Batched(d1, d2) ==
    LET q == SelectSeq(<<d1, d2>>, LAMBDA d : d.b.err = "none")
        sets == SelectSeq(q, LAMBDA d : d.b.setNotes)
        creates == SelectSeq(q, LAMBDA d : d.op.op = "create")
    IN [setNotes |-> sets # <<>>,
        notes |-> IF sets # <<>> THEN sets[Len(sets)].b.notes ELSE notes,
        editing |-> IF creates # <<>> THEN creates[Len(creates)].b.editing ELSE editingNoteId,
        stopped |-> TRUE,
        err |-> "none",
        timeouts |-> IF q = <<>> THEN <<>>
                     ELSE IF Len(q) = 1 THEN q[1].b.timeouts
                     ELSE q[1].b.timeouts \o q[2].b.timeouts]

\* The page after the script wrote the markup of its input event into the field
TypedHTML(html, d) ==
    IF d.op.op = "input" THEN [html EXCEPT ![d.card] = d.op.value] ELSE html

\* Two events in one task. The change event of the title input is not the
\* first: React renders at once after it, to restore the controlled input.
DispatchPair ==
    /\ phase = "mounted" /\ ~hasError
    /\ ops + 2 <= MaxOps
    /\ \E ok \in WriteOutcomes :
       \E d1, d2 \in Dispatches(ok) :
        /\ d1.op.op # "update"
        /\ (d1.op.op = "create" /\ d2.op.op = "create") => d1.op.id.v <= d2.op.id.v
        /\ Commit(Batched(d1, d2).notes, Batched(d1, d2).editing, Batched(d1, d2).setNotes, ok)
        /\ Gesture(TypedHTML(TypedHTML(innerHTML, d1), d2),
                   IF activeElement.el = "editor"
                      /\ \E d \in {d1, d2} : d.op.op = "input" /\ d.card = activeElement.card
                   THEN [activeElement EXCEPT !.caret = 0] ELSE activeElement,
                   Batched(d1, d2))
        /\ lastOp' = [d2.op EXCEPT !.before =
                        [op |-> d1.op.op, id |-> d1.op.id, field |-> d1.op.field,
                         value |-> d1.op.value, err |-> d1.op.err]]
        /\ now' = IF d2.op.op = "create" THEN d2.op.id.v
                  ELSE IF d1.op.op = "create" THEN d1.op.id.v ELSE now
    /\ ops' = ops + 2
    /\ UNCHANGED <<rev, phase>>

NextBatch == Next \/ DispatchPair

SpecBatch == Init /\ [][NextBatch]_vars

-----------------------------------------------------------------------------
(* Properties *)

Range(f) == {f[x] : x \in DOMAIN f}

\* The step just taken handled an event of the note view.
EventStep == ops' = ops + 1

\* The cards whose note has the id
CardsOf(n, id) == {i \in 1..Len(n.v) : NoteId(n.v[i]) = id}

\* The ids the store's operations are tried with: those of the notes, and others
ProbeIds == {JNum(t) : t \in 0..MaxClock}

\* C1: in every reachable state the ids of the notes of the collection are
\* pairwise distinct, also after two creates within one clock tick.
C1_DistinctIds ==
    notes.k = "arr" =>
        \A i, j \in 1..Len(notes.v) : i # j => NoteId(notes.v[i]) # NoteId(notes.v[j])

\* C2: after remove(id) the Editing Focus is absent if id was the focus, and
\* is what it was if id was not the focus.
C2_RemoveFocus ==
    lastOp.op = "remove" =>
        editingNoteId = IF lastOp.prevEditing = lastOp.id THEN JNull ELSE lastOp.prevEditing

\* A card that is not in edit mode was deleted while another note was the focus.
C2_Witness ==
    /\ lastOp.op = "remove"
    /\ lastOp.prevEditing.k = "num"
    /\ lastOp.prevEditing # lastOp.id
    /\ editingNoteId = lastOp.prevEditing
    /\ CardsOf(notes, editingNoteId) # {}

\* The note of card i after an update of field f to val: f and isNew are set,
\* every other field is the old note's.
UpdatedAs(old, new, f, val) ==
    /\ new.k = "obj"
    /\ DOMAIN new.v = (DOMAIN old.v) \cup {f, "isNew"}
    /\ new.v[f] = val
    /\ new.v["isNew"] = JBool(FALSE)
    /\ \A key \in (DOMAIN old.v) \ {f, "isNew"} : new.v[key] = old.v[key]

C3_Present ==
    (EventStep /\ lastOp'.op \in {"update", "input"} /\ lastOp'.err = "none") =>
        /\ notes'.k = "arr"
        /\ Len(notes'.v) = Len(notes.v)
        /\ \A i \in 1..Len(notes.v) :
            IF NoteId(notes.v[i]) = lastOp'.id
            THEN UpdatedAs(notes.v[i], notes'.v[i], lastOp'.field, JStr(lastOp'.value))
            ELSE notes'.v[i] = notes.v[i]
        /\ editingNoteId' = editingNoteId

C3_Absent ==
    (phase = "mounted" /\ ~hasError) =>
        \A id \in ProbeIds, field \in {"title", "content"}, value \in TitleInputs \cup MarkupInputs :
            CardsOf(notes, id) = {} =>
                LET b == updateNoteContent(id, field, value) IN
                b.notes = notes /\ b.editing = editingNoteId /\ b.err = "none"

\* C3: update(id, field, value) leaves the collection's content as it is when
\* no note has the id; otherwise the notes with that id get the field replaced
\* and isNew cleared, and every other field, every other note, the order of the
\* collection and the Editing Focus stay as they were.
C3_Update == []C3_Absent /\ [][C3_Present]_vars

\* A title was typed into one of two cards; the other card's note is untouched.
C3_Witness ==
    /\ lastOp.op = "update"
    /\ Len(notes.v) = 2
    /\ \E i, j \in 1..2 :
        /\ NoteId(notes.v[i]) = lastOp.id
        /\ NoteId(notes.v[j]) # lastOp.id
        /\ Get(notes.v[i], "title") = JStr(lastOp.value)
        /\ Get(notes.v[i], "isNew") = JBool(FALSE)
        /\ ~HasKey(notes.v[j], "isNew")
    /\ editingNoteId = lastOp.id

\* C4: create() on a collection of n notes appends one note, titled
\* note-(n+1) with empty content, leaves the notes there as they are and makes
\* the new note the Editing Focus; the new note's id is none of the ids there,
\* so that three creates from the empty collection give three distinct ids.
C4_Create ==
    [][(EventStep /\ lastOp'.op = "create") =>
        LET n == Len(notes.v) IN
        /\ Len(notes'.v) = n + 1
        /\ \A i \in 1..n : notes'.v[i] = notes.v[i]
        /\ Get(notes'.v[n + 1], "title") = JStr("note-" \o ToString(n + 1))
        /\ Get(notes'.v[n + 1], "content") = JStr("")
        /\ editingNoteId' = NoteId(notes'.v[n + 1])
        /\ \A i \in 1..n : NoteId(notes.v[i]) # NoteId(notes'.v[n + 1])]_vars

\* C5: every input event on the editable field of the note in edit mode
\* commits the field's markup as that note's content, and raises no error.
C5_InputCommits ==
    lastOp.op = "input" =>
        /\ lastOp.err = "none"
        /\ \A i \in CardsOf(notes, lastOp.id) :
            Get(notes.v[i], "content") = JStr(lastOp.value)

\* The stored text is an array of note records.
IsNoteArray(ls) ==
    /\ Truthy(ls)
    /\ LET r == JSONparse(ls.toks) IN
       /\ r.ok
       /\ r.val.k = "arr"
       /\ \A i \in 1..Len(r.val.v) : HasKey(r.val.v[i], "id")

\* C6: load() gives the empty collection when the persisted value is absent or
\* is not an array of note records, and no failure reaches the first render.
C6_Load ==
    [][(phase = "boot" /\ phase' = "mounted") =>
        /\ ~hasError'
        /\ ~IsNoteArray(localStorage) => notes' = JArr(<<>>)]_vars

\* The step handled an event that set notes.
MutationStep ==
    EventStep /\ lastOp'.op \in {"create", "update", "input", "recolor", "remove"}
              /\ lastOp'.err = "none"

\* The collection and the focus after the step show the mutation of the step.
Reflected ==
    LET id == lastOp'.id
        hit == CardsOf(notes', id) IN
    /\ notes'.k = "arr"
    /\ CASE lastOp'.op = "create" ->
                /\ Len(notes'.v) = Len(notes.v) + 1
                /\ NoteId(notes'.v[Len(notes'.v)]) = id
                /\ editingNoteId' = id
         [] lastOp'.op = "remove" ->
                /\ hit = {}
                /\ Len(notes'.v) = Len(notes.v) - Cardinality(CardsOf(notes, id))
                /\ editingNoteId' # id
         [] lastOp'.op \in {"update", "input", "recolor"} ->
                /\ hit = CardsOf(notes, id)
                /\ \A i \in hit : Get(notes'.v[i], lastOp'.field) = JStr(lastOp'.value)
                /\ editingNoteId' = editingNoteId

\* C7: when the write of a save is refused, the persisted value stays as it
\* was, no error reaches the caller (the view stays up), and the collection and
\* the Editing Focus in memory show the mutation that caused the save.
C7_WriteFails ==
    [][(MutationStep /\ ~lastOp'.ok) =>
        /\ localStorage' = localStorage
        /\ ~hasError'
        /\ Reflected]_vars

\* A note was deleted, the write was refused: the note is gone from memory and
\* still in the persisted value.
C7_Witness ==
    /\ lastOp.op = "remove"
    /\ ~lastOp.ok
    /\ ~hasError
    /\ CardsOf(notes, lastOp.id) = {}
    /\ IsNoteArray(localStorage)
    /\ CardsOf(JSONparse(localStorage.toks).val, lastOp.id) # {}

\* C8: after every create, update, recolor or remove whose write succeeds, the
\* persisted value is the serialization of the collection in memory, and
\* loading it gives a collection equal to the one in memory.
C8_Persisted ==
    (lastOp.op \in {"create", "update", "input", "recolor", "remove"}
        /\ lastOp.err = "none" /\ lastOp.ok) =>
        /\ localStorage = Stored(JSONstringify(notes))
        /\ InitNotes(localStorage) = notes

\* The last note was deleted and the write succeeded after an earlier one was
\* refused: the persisted value is the empty array again.
C8_Witness ==
    /\ lastOp.op = "remove"
    /\ lastOp.ok
    /\ writeFailures > 0
    /\ notes = JArr(<<>>)
    /\ InitNotes(localStorage) = notes

\* The colours of a collection
ColorsOf(n) == {Get(n.v[i], "color").v : i \in 1..Len(n.v)}

\* The colours in memory and in the persisted array
ColorsInUse ==
    (IF notes.k = "arr" THEN ColorsOf(notes) ELSE {})
    \cup (IF IsNoteArray(localStorage) THEN ColorsOf(JSONparse(localStorage.toks).val) ELSE {})

\* C9: in every reachable state, in memory and in the persisted value, the
\* colour of every note is a member of the palette, also that of a note just
\* created.
C9_InPalette == ColorsInUse \subseteq Range(colors(rev))

\* C9 as amended: the colour of every note is a member of the palette or, in
\* revision 3, the default "bg-gray-700" of a created note, which is no member
\* of the palette; a recolored note has a member of the palette.
C9_InPaletteOrDefault ==
    /\ ColorsInUse \subseteq Range(colors(rev)) \cup (IF rev = 3 THEN {"bg-gray-700"} ELSE {})
    /\ (lastOp.op = "recolor" /\ notes.k = "arr") =>
          \A i \in CardsOf(notes, lastOp.id) : Get(notes.v[i], "color").v \in Range(colors(rev))

\* Revision 3 has just created a note, whose colour is not in the palette.
C9_Witness ==
    /\ rev = 3
    /\ lastOp.op = "create"
    /\ \E i \in CardsOf(notes, lastOp.id) :
          /\ Get(notes.v[i], "color") = JStr("bg-gray-700")
          /\ "bg-gray-700" \notin Range(colors(rev))

\* The note of a card after a recolor: color is set, every other field is the
\* old note's, isNew among them.
RecoloredAs(old, new, c) ==
    /\ new.k = "obj"
    /\ DOMAIN new.v = (DOMAIN old.v) \cup {"color"}
    /\ new.v["color"] = c
    /\ \A key \in (DOMAIN old.v) \ {"color"} : new.v[key] = old.v[key]

C10_Present ==
    (EventStep /\ lastOp'.op = "recolor") =>
        /\ lastOp'.value \in Range(colors(rev))
        /\ notes'.k = "arr"
        /\ Len(notes'.v) = Len(notes.v)
        /\ \A i \in 1..Len(notes.v) :
            IF NoteId(notes.v[i]) = lastOp'.id
            THEN RecoloredAs(notes.v[i], notes'.v[i], JStr(lastOp'.value))
            ELSE notes'.v[i] = notes.v[i]
        /\ editingNoteId' = editingNoteId

C10_Absent ==
    (phase = "mounted" /\ ~hasError /\ rev = 3) =>
        \A id \in ProbeIds, r \in RandomIndexes(rev) :
            CardsOf(notes, id) = {} =>
                LET b == changeNoteColor(id, r) IN
                b.notes = notes /\ b.editing = editingNoteId /\ b.err = "none"

\* Every member of the palette is an outcome of recoloring the saved note, the
\* colour it has among them.
C10_AnyColor ==
    rev = 3 =>
        \A c \in Range(colors(rev)) :
            \E r \in RandomIndexes(rev) :
                Get(RecoloredNotes(<<SavedNote(rev)>>, JNum(0), colors(rev)[r + 1])[1], "color")
                    = JStr(c)

\* C10: recolor(id) gives the notes with that id some member of the palette,
\* any member, the present colour included, and changes nothing else: not the
\* other fields (isNew among them), not the other notes, not the order, not the
\* Editing Focus; with an id no note has, the collection's content stays.
C10_Recolor == []C10_Absent /\ []C10_AnyColor /\ [][C10_Present]_vars

\* A recolor gave an edited note (isNew cleared) the colour it had.
C10_Witness ==
    /\ lastOp.op = "recolor"
    /\ lastOp.prevValue = lastOp.value
    /\ \E i \in CardsOf(notes, lastOp.id) :
        /\ Get(notes.v[i], "color") = JStr(lastOp.value)
        /\ HasKey(notes.v[i], "isNew")
        /\ Get(notes.v[i], "isNew") = JBool(FALSE)
    /\ editingNoteId = lastOp.id


-----------------------------------------------------------------------------
\* The card whose editable field has the focus shows the note the last event
\* was about, and no callback is left to run.
SettledInEditor ==
    /\ timers = <<>>
    /\ ~hasError
    /\ activeElement.el = "editor"
    /\ activeElement.card \in Cards
    /\ NoteId(notes.v[activeElement.card]) = lastOp.id

\* C11: after an input event received with the caret after k characters of the
\* field's text, once the commit and the callbacks the handler left have run,
\* the caret is after k characters of the field's text.
C11_CaretKept ==
    (lastOp.op = "input" /\ SettledInEditor) =>
        activeElement.caret = lastOp.caret

-----------------------------------------------------------------------------
\* The step just taken ran a setTimeout callback.
TimerStep == phase = "mounted" /\ ops' = ops /\ timers # <<>>

\* The caret is inside the text of the field that has the focus.
CaretInContent ==
    activeElement.el = "editor" =>
        /\ activeElement.card \in 1..Len(innerHTML)
        /\ activeElement.caret \in Offsets(innerHTML[activeElement.card])

\* ae is the editable field of a card, the caret at the end of its text.
AtEnd(ae, html) ==
    /\ ae.el = "editor"
    /\ ae.card \in 1..Len(html)
    /\ ae.caret = TextLength(html[ae.card])

C12_Step ==
    TimerStep =>
        /\ hasError' = hasError
        /\ activeElement' = activeElement \/ AtEnd(activeElement', innerHTML')

\* C12: a restoration callback, also one that runs after the content shrank or
\* without a target field, puts the caret at the end of the content or does
\* nothing; no exception leaves it and the caret is never beyond the content.
C12_Restoration == [](~uncaught /\ CaretInContent) /\ [][C12_Step]_vars

\* A callback has run since an input event made the text of the field shorter.
C12_Witness ==
    /\ lastOp.op = "input"
    /\ lastOp.err = "none"
    /\ TextLength(lastOp.value) < TextLength(lastOp.prevValue)
    /\ lastOp.ran.fn = "querySelector"
    /\ AtEnd(activeElement, innerHTML)
    /\ NoteId(notes.v[activeElement.card]) = lastOp.ran.arg

\* C13: once a note has become the Editing Focus, by a click on its card or by
\* the new-note button, and the callbacks have run with no other event since,
\* its editable field has the focus, the caret at the end of its text.
C13_FocusPlaced ==
    (lastOp.op \in {"create", "activate"} /\ timers = <<>> /\ ~hasError
        /\ editingNoteId = lastOp.id) =>
        /\ AtEnd(activeElement, innerHTML)
        /\ NoteId(notes.v[activeElement.card]) = lastOp.id

C17_Step ==
    TimerStep =>
        LET t == Head(timers) IN
        /\ (t.fn # "querySelector" \/ editingNoteId # t.arg \/ CardsOf(notes, t.arg) = {})
                => activeElement' = activeElement
        /\ (activeElement.el # "body" /\ NoteId(notes.v[activeElement.card]) # t.arg)
                => activeElement' = activeElement
        /\ activeElement' # activeElement =>
                /\ activeElement'.el = "editor"
                /\ NoteId(notes.v[activeElement'.card]) = t.arg
                /\ editingNoteId = t.arg

\* C17: whatever events came between, a callback asked for on behalf of note A
\* moves the focus and the caret only into the field of the note with A's id
\* while that is the Editing Focus; it leaves the field of another note alone,
\* does nothing when its field is gone, and no exception leaves it.
C17_StaleCallbacks == []~uncaught /\ [][C17_Step]_vars

\* The callback of a note that is no longer the Editing Focus has run while the
\* field of the note that is has the focus.
C17_Witness ==
    /\ lastOp.ran.fn = "querySelector"
    /\ editingNoteId.k = "num"
    /\ lastOp.ran.arg # editingNoteId
    /\ activeElement.el = "editor"
    /\ NoteId(notes.v[activeElement.card]) = editingNoteId
    /\ ~uncaught

C18_Step ==
    (EventStep /\ lastOp'.op \in {"clickEditor", "clickTitle"}) =>
        /\ notes' = notes
        /\ editingNoteId' = editingNoteId
        /\ timers' = timers
        /\ lastOp'.op = "clickEditor" =>
                /\ activeElement'.el = "editor"
                /\ activeElement'.caret = lastOp'.caret

\* C18: a click in the editable field or the title input of the card in edit
\* mode changes neither the Editing Focus nor the collection and asks for no
\* callback: the caret stays where the click put it.
C18_FieldClick == [][C18_Step]_vars

\* A click put the caret before the end of the text, and no callback is left.
C18_Witness ==
    /\ lastOp.op = "clickEditor"
    /\ lastOp.ran = NoTimer
    /\ timers = <<>>
    /\ activeElement.el = "editor"
    /\ activeElement.caret < TextLength(innerHTML[activeElement.card])
    /\ editingNoteId = lastOp.id

-----------------------------------------------------------------------------
\* The cards that show the title input and the editable field
CardsInEdit == {i \in Cards : InEdit(i)}

\* C14: at most one note of the collection is in edit mode, and the Editing
\* Focus is absent or the id of a note of the collection.
C14_SingleEdit ==
    (phase = "mounted" /\ ~hasError) =>
        /\ Cardinality(CardsInEdit) <= 1
        /\ editingNoteId = JNull \/ CardsOf(notes, editingNoteId) # {}

-----------------------------------------------------------------------------
\* C15: the serialization of a collection of notes deserializes to an equal
\* collection, and loads as one, the empty collection and notes with empty
\* content included.
C15_RoundTrip ==
    notes.k = "arr" =>
        LET text == JSONstringify(notes) IN
        /\ JSONparse(text) = ParseOk(notes, Len(text) + 1)
        /\ InitNotes(setItem(Absent, text, TRUE)) = notes
        /\ InitNotes(setItem(Absent, JSONstringify(JArr(<<>>)), TRUE)) = JArr(<<>>)

\* The collection holds a note with empty content and a note with content.
C15_Witness ==
    /\ notes.k = "arr"
    /\ \E i, j \in 1..Len(notes.v) :
        /\ ContentOf(notes.v[i]) = ""
        /\ ContentOf(notes.v[j]) # ""

\* The fields of a note the page shows
ContentKeys == {"id", "title", "content", "color"}

\* new is old but for isNew, which the notes with the id have cleared.
SameContent(old, new, id) ==
    /\ Len(new) = Len(old)
    /\ \A i \in 1..Len(old) :
        /\ \A key \in ContentKeys : HasKey(new[i], key) /\ Get(new[i], key) = Get(old[i], key)
        /\ IF NoteId(old[i]) = id
           THEN /\ HasKey(new[i], "isNew") /\ Get(new[i], "isNew") = JBool(FALSE)
                /\ DOMAIN new[i].v = (DOMAIN old[i].v) \cup {"isNew"}
           ELSE new[i] = old[i]

\* Every note with the id holds value in field.
HoldsValue(ns, id, field, value) ==
    \A i \in 1..Len(ns) : NoteId(ns[i]) = id => Get(ns[i], field) = JStr(value)

C16_Static ==
    (notes.k = "arr" /\ ~hasError) =>
        \A id \in ProbeIds, field \in {"title", "content"} :
            /\ HoldsValue(notes.v, id, field, FieldBefore(id, field)) =>
                    SameContent(notes.v,
                                updateNoteContent(id, field, FieldBefore(id, field)).notes.v, id)
            /\ \A value \in TitleInputs \cup MarkupInputs :
                    LET once == updateNoteContent(id, field, value).notes.v IN
                    UpdatedNotes(once, id, field, value) = once

C16_Step ==
    (EventStep /\ lastOp'.op \in {"update", "input"} /\ lastOp'.err = "none"
        /\ HoldsValue(notes.v, lastOp'.id, lastOp'.field, lastOp'.value)) =>
        SameContent(notes.v, notes'.v, lastOp'.id)

\* C16: update(id, field, v) with v the value the field has leaves id, title,
\* content and color of every note and the order as they were, isNew of the
\* target cleared; a second application of an update changes nothing more.
C16_SameValue == []C16_Static /\ [][C16_Step]_vars

\* The title input reported the title the note has.
C16_Witness ==
    /\ lastOp.op = "update"
    /\ lastOp.err = "none"
    /\ lastOp.prevValue = lastOp.value
    /\ \E i \in CardsOf(notes, lastOp.id) : Get(notes.v[i], "title") = JStr(lastOp.value)

\* The ids of the notes, in order
IdsOf(n) == [i \in 1..Len(n.v) |-> NoteId(n.v[i])]

C19_Step ==
    (EventStep /\ notes.k = "arr" /\ notes'.k = "arr") =>
        CASE lastOp'.op = "create" ->
                /\ Len(notes'.v) = Len(notes.v) + 1
                /\ \A i \in 1..Len(notes.v) : notes'.v[i] = notes.v[i]
                /\ NoteId(notes'.v[Len(notes'.v)]) = lastOp'.id
          [] lastOp'.op = "remove" ->
                IdsOf(notes') = SelectSeq(IdsOf(notes), LAMBDA x : x # lastOp'.id)
          [] OTHER -> IdsOf(notes') = IdsOf(notes)

\* C19: no operation changes the relative order of the notes it keeps, and a
\* created note comes after every existing note.
C19_StableOrder == [][C19_Step]_vars

\* A note was removed from between or beside two that stay, or a note was
\* created behind two.
C19_Witness ==
    /\ lastOp.op \in {"remove", "create"}
    /\ lastOp.err = "none"
    /\ notes.k = "arr"
    /\ Len(notes.v) >= 2
    /\ lastOp.op = "create" => Len(notes.v) = 3 /\ NoteId(notes.v[3]) = lastOp.id

-----------------------------------------------------------------------------
\* The collection n shows the mutation o.
Reflects(n, o) ==
    /\ n.k = "arr"
    /\ CASE o.op = "create" -> CardsOf(n, o.id) # {}
         [] o.op \in {"update", "input", "recolor"} ->
                \A i \in CardsOf(n, o.id) : Get(n.v[i], o.field) = JStr(o.value)
         [] OTHER -> TRUE

\* C20: when two mutations are dispatched with no render between them, and the
\* second does not write the field the first wrote, the collection and, if the
\* write succeeded, the persisted value show both.
C20_NoLostMutation ==
    (lastOp.before.op # "none" /\ lastOp.before.err = "none" /\ lastOp.err = "none"
        /\ ~(lastOp.before.id = lastOp.id /\ lastOp.before.field = lastOp.field)) =>
        /\ Reflects(notes, lastOp.before)
        /\ Reflects(notes, lastOp)
        /\ lastOp.ok => /\ Reflects(InitNotes(localStorage), lastOp.before)
                        /\ Reflects(InitNotes(localStorage), lastOp)

-----------------------------------------------------------------------------
\* The render of App failed and ErrorBoundary shows its fallback in place of
\* the note view.
FallbackShown ==
    /\ hasError
    /\ ErrorBoundaryRender(hasError) = "fallback"
    /\ innerHTML = <<>>

\* A failed render of App is caught, and the fallback is on screen for it.
C21_Static ==
    phase = "mounted" => /\ AppRenderThrows(notes) => FallbackShown
                         /\ hasError => FallbackShown

\* In the error state a step leaves the error state, the fallback, and what the
\* failed render read (the state of App and the persisted value) as they are:
\* App's initializer and render do not run again.
C21_Step ==
    hasError => /\ hasError' /\ FallbackShown'
                /\ notes' = notes /\ editingNoteId' = editingNoteId
                /\ localStorage' = localStorage
                /\ timers' = timers

\* C21: once ErrorBoundary has caught a failure of App's render it shows the
\* fallback and stays in the error state: no later event brings the note view
\* back, and the failed render is not tried again.
C21_Terminal == []C21_Static /\ [][C21_Step]_vars

\* The render failed at mount and the fallback has been clicked since.
C21_Witness ==
    /\ FallbackShown
    /\ AppRenderThrows(notes)
    /\ lastOp.op = "clickFallback"
    /\ ops >= 2

=============================================================================
